---- MODULE Spec2Model ----
(***************************************************************************)
(* Monitoring service (service3): the bounded session pool DBPool, the     *)
(* metrics counters guarded by the server's RWMutex, the gRPC handlers     *)
(* CreateUser / GetUser / GetServiceMetrics / GetDatabaseMetrics and the   *)
(* monitorDatabase pollers.                                                *)
(*                                                                         *)
(* Every goroutine is a process with a program counter.  One action is one *)
(* access to shared memory (or one database call) together with the local  *)
(* computation that follows it.  `x++` on a plain uint64 is a load and a   *)
(* store, so the counter updates are two steps each; a sync.Mutex is a     *)
(* variable naming its holder.                                             *)
(*                                                                         *)
(* Three further specifications look at one part of the system each, on top *)
(* of the same actions: SpecPoller adds what monitorDatabase logs and the   *)
(* samples it and GetDatabaseMetrics read, SpecStore adds the users table   *)
(* behind CreateUser / GetUser, and SpecUserService is the CreateUser of    *)
(* the user service (service1) with its publish retry loop.                 *)
(***************************************************************************)
EXTENDS Integers, FiniteSets, Sequences, TLC

\* ---- bounds -------------------------------------------------------------
NumHandlers == 2        \* concurrent gRPC handler goroutines
MaxConns    == 1        \* maxConns given to NewDBPool (10 in main)
MaxCalls    == 2        \* CreateUser/GetUser invocations in one run
MaxLatency  == 1        \* largest time.Since(start).Milliseconds() value
MaxUserCalls == 2       \* CreateUser invocations of the user service in one run
MaxStreak   == 3        \* consecutive failed poller cycles that are told apart
MaxUpdates  == 22       \* metrics_update events the server emits
MaxPartial  == 1        \* ... of which lack one section or more
MaxSockets  == 2        \* sockets the dashboard creates

\* ---- names --------------------------------------------------------------
None  == 0
Nil   == "nil"
ErrTooManyConnections == "too many active database connections"
ErrBegin    == "db.Begin failed"
ErrStmt     == "statement failed"
ErrEnd      == "commit/rollback failed"
ErrUnknown  == "unknown service"
ErrPublish  == "WriteMessages failed"
ErrTxDone   == "sql: transaction has already been committed or rolled back"

Pools    == {"user", "order"}
Services == {"user", "order"}
Names    == {"user", "order", "other"}

Handlers == 1..NumHandlers
\* main starts one monitorDatabase goroutine per pool.  The two run the same
\* code on disjoint pools; the run follows the poller of the user pool, the
\* pool every handler uses, and reaches the order pool through
\* GetDatabaseMetrics("order").
PolledPools == {"user"}
PollerOf == [user |-> NumHandlers + 1, order |-> NumHandlers + 2]
Pollers  == {PollerOf[pl] : pl \in PolledPools}
Procs    == Handlers \cup Pollers

Latencies == 0..MaxLatency

VARIABLES
  activeConns,    \* DBPool.activeConns of userPool / orderPool
  poolMutex,      \* DBPool.mutex: the process holding it, or None
  metricsMutex,   \* server.metrics.mutex: [writer, readers]
  metrics,        \* server.metrics.userService / orderService
  loc,            \* per goroutine: program counter and local variables
  calls,          \* number of CreateUser/GetUser invocations started
  hist,           \* history: outcomes of the invocations that returned
  us,             \* user service (service1): a CreateUser call, its database
                  \* and the broker topic
  plog,           \* per poller: the level of its last log line and the run
                  \* of failed cycles that line ends
  sample,         \* the database samples: where each goroutine keeps the
                  \* values it reads, and what it has published
  store,          \* the users table of the monitoring service's user
                  \* database, and the data of the CreateUser/GetUser calls
  bg,             \* the goroutines main starts beside the pollers:
                  \* reportMetrics and monitorKafka
  fe              \* the dashboard: WebSocketService and the App component

\* the monitoring service's own state, and the rest
monVars == <<activeConns, poolMutex, metricsMutex, metrics, loc, calls, hist>>
aux     == <<us, plog, sample, store, bg, fe>>
userRest == <<monVars, plog, sample, store, bg, fe>> \* what the user service never touches
bgRest  == <<monVars, us, plog, sample, store, fe>>  \* ... reportMetrics and monitorKafka
feRest  == <<monVars, us, plog, sample, store, bg>>  \* ... the dashboard

vars == <<activeConns, poolMutex, metricsMutex, metrics, loc, calls, hist, us,
          plog, sample, store, bg, fe>>

\* ---- float64 division as Go computes it ----------------------------------
\* float64(a) / float64(b) for unsigned a, b: 0/0 is NaN, a/0 is +Inf
\* (no panic); otherwise the quotient, kept as the pair of its operands.
NaN     == <<"NaN", 0, 0>>
PosInf  == <<"+Inf", 0, 0>>
Quot(a, b) == <<"num", a, b>>
FloatZero   == Quot(0, 1)
Float64Div(a, b) == IF b = 0 THEN (IF a = 0 THEN NaN ELSE PosInf) ELSE Quot(a, b)

\* ---- initial state -------------------------------------------------------
Metrics == [totalRequests |-> 0, successfulRequests |-> 0,
            failedRequests |-> 0, totalLatency |-> 0]

NoResp == [status |-> "", error |-> "", terr |-> Nil,
           total |-> 0, succ |-> 0, fail |-> 0, avg |-> FloatZero]

Locals(startPc, o, pl) ==
  [pc |-> startPc, op |-> o, pool |-> pl, svc |-> "none",
   err |-> Nil,        \* the caller's err variable
   relErr |-> Nil,     \* the err argument ReleaseTx is called with
   held |-> FALSE,     \* owns a *sql.Tx obtained from BeginTx
   tmp |-> 0,          \* register of a load/store pair
   lat |-> 0,          \* what this invocation changed totalLatency by
   stmtErr |-> Nil,    \* outcome of the statement run inside the session
   txEnd |-> "none",   \* how the session was ended: commit / rollback
   relRet |-> Nil,     \* value ReleaseTx returned
   nAcq |-> 0, nRel |-> 0,             \* sessions obtained / released
   recT |-> 0, recS |-> 0, recF |-> 0, \* what it changed the counters by
   seen |-> [succ |-> 0, fail |-> 0],  \* invocations returned when a query began
   resp |-> NoResp]

Idle(p) == IF p \in Handlers THEN Locals("idle", "none", "none")
           ELSE Locals("p_idle", "monitorDatabase",
                       CHOOSE pl \in Pools : PollerOf[pl] = p)

\* user service: no call in progress, empty users table, empty topic
UserCallLocals ==
  [pc |-> "idle",
   err |-> Nil,        \* the err variable of CreateUser
   retries |-> 0,      \* the loop variable
   id |-> 0,           \* the id the INSERT returned
   tx |-> "none",      \* none / open / committed / rolledback / failed
   fails |-> 0, oks |-> 0,  \* WriteMessages calls that failed / succeeded
   slept |-> 0,        \* milliseconds spent in time.Sleep
   rbErr |-> Nil,      \* what the deferred tx.Rollback() returned
   resp |-> [id |-> 0, terr |-> Nil]]

UserServiceInit ==
  [call |-> UserCallLocals,
   rows |-> {},        \* ids of the committed rows of users
   events |-> {},      \* keys of the messages written to user-events
   seq |-> 0,          \* the SERIAL sequence of users.id
   calls |-> 0]

\* a value read from the database carries the goroutine and the cycle (or
\* invocation) that read it; NoTag is the zero value of a fresh variable
NoTag == <<>>

NoSample == [ac |-> NoTag, size |-> NoTag]

\* requests: the (name, email) pairs of CreateUser, the ids of GetUser
Users == {[name |-> "Alice", email |-> "alice@example.com"],
          [name |-> "Bob", email |-> "bob@example.com"]}

Ids == 1..MaxCalls

NoRow == [id |-> 0, name |-> "", email |-> ""]

\* the data of one CreateUser/GetUser invocation
NoIo == [user |-> NoRow,     \* req.Name, req.Email
         id |-> 0,           \* req.UserId
         row |-> NoRow,      \* the row its INSERT wrote, with the id returned
         found |-> NoRow,    \* the row its SELECT scanned
         noRows |-> FALSE,   \* its SELECT found nothing (sql.ErrNoRows)
         known |-> {}]       \* the rows callers had been told of when it began

\* the service whose reportMetrics goroutine is followed
ReportedServices == {"user"}

NoLine == <<>>

\* metrics.go:455-458  reportMetrics before its first tick
ReportInit == [pc |-> "rp_idle", total |-> 0, succ |-> 0, fail |-> 0, lat |-> 0,
               avg |-> FloatZero, out |-> NoLine]

NoStats == <<>>

\* metrics.go:512-522  monitorKafka before its first tick
KafkaInit == [pc |-> "k_idle", stats |-> NoStats, out |-> NoStats]

NoSocket == 0

\* websocket.js:4-9  the constructor: socket null, no listeners, no attempts;
\* conn is the state of the socket.io connection, reason the reason of the
\* last disconnect event, made the number of sockets created so far
WebSocketServiceInit ==
  [socket |-> NoSocket, conn |-> "none", subscribed |-> FALSE,
   reconnectAttempts |-> 0, reason |-> "", made |-> 0]

\* part_001:36-41  useState({userService: [], orderService: [], ...})
NoSeries == [userService |-> <<>>, orderService |-> <<>>,
             database |-> <<>>, kafka |-> <<>>]

Init ==
  /\ bg = [report |-> [s \in ReportedServices |-> ReportInit], kafka |-> KafkaInit]
  /\ fe = [ws |-> WebSocketServiceInit, mounted |-> FALSE, metrics |-> NoSeries,
           arrived |-> NoSeries, sent |-> 0, partial |-> 0, now |-> 0]
  /\ us = UserServiceInit
  /\ store = [rows |-> {}, seq |-> 0, created |-> {},
              io |-> [h \in Handlers |-> NoIo]]
  /\ plog = [q \in Pollers |-> [streak |-> 0, level |-> "none"]]
  /\ sample = [slot |-> [p \in Procs |-> NoSample],
               out  |-> [p \in Procs |-> NoSample],
               cyc  |-> [p \in Procs |-> 0]]
  /\ activeConns = [pl \in Pools |-> 0]
  /\ poolMutex = [pl \in Pools |-> None]
  /\ metricsMutex = [writer |-> None, readers |-> {}]
  /\ metrics = [s \in Services |-> Metrics]
  /\ loc = [p \in Procs |-> Idle(p)]
  /\ calls = 0
  /\ hist = [succ |-> 0, fail |-> 0, lat |-> 0]

\* ---- DBPool --------------------------------------------------------------
\* p.mutex.Lock() returns only when nobody holds the mutex.
CanLockPool(pl) == poolMutex[pl] = None

\* variants of the admission check: no check at all, and `>` for `>=`
PoolFullNever(pl) == FALSE

PoolFullOffByOne(pl) == activeConns[pl] > MaxConns

\* part_002:43   if p.activeConns >= p.maxConns
PoolFull(pl) == activeConns[pl] >= MaxConns

\* variant: the rollback branch returns before the count is touched
ActiveAfterReleaseCommitOnly(n, e) == IF e # Nil THEN n ELSE n - 1

\* part_002:65   p.activeConns--   (before, and whatever, the err argument)
ActiveAfterRelease(n, e) == n - 1

\* `defer pool.ReleaseTx(tx, err)`: Go evaluates the arguments of a deferred
\* call when the defer statement executes, so the call gets the value err
\* has at that moment.
DeferArg(errNow) == errNow

MetricOps == {"CreateUser", "GetUser"}

\* variant: `return` for `continue`
EndCycleReturn(l) ==
  [Locals("p_exit", "monitorDatabase", l.pool)
     EXCEPT !.nAcq = l.nAcq, !.nRel = l.nRel]

\* monitorDatabase: `continue` (or the end of the loop body) ends a cycle;
\* its locals go out of scope, the history of the cycle's sessions stays.
EndCycle(l) ==
  [Locals("p_idle", "monitorDatabase", l.pool)
     EXCEPT !.nAcq = l.nAcq, !.nRel = l.nRel]

\* BeginTx returned (nil, e) to its caller.
AfterBeginFail(l, e) ==
  CASE l.op \in MetricOps ->
         [l EXCEPT !.err = e, !.pc = "m_lock"]
    [] l.op = "GetDatabaseMetrics" ->
         [l EXCEPT !.err = e, !.pc = "done", !.resp.terr = e]
    [] OTHER ->
         EndCycle(l)

\* BeginTx returned (tx, nil) to its caller; the handlers then defer the
\* release.
AfterBeginOk(l) ==
  LET g == [l EXCEPT !.err = Nil, !.held = TRUE, !.nAcq = @ + 1] IN
  CASE l.op \in MetricOps ->
         [g EXCEPT !.relErr = DeferArg(g.err), !.pc = "stmt"]
    [] l.op = "GetDatabaseMetrics" ->
         [g EXCEPT !.relErr = DeferArg(g.err), !.pc = "q1"]
    [] OTHER ->
         [g EXCEPT !.pc = "p_q1"]

\* part_002:42-46  lock, admission check, rejection
BeginTxAdmit(p) ==
  LET l == loc[p] IN
  /\ l.pc = "b_lock"
  /\ CanLockPool(l.pool)
  /\ IF PoolFull(l.pool)
       THEN /\ loc' = [loc EXCEPT ![p] = AfterBeginFail(l, ErrTooManyConnections)]
            /\ UNCHANGED poolMutex
       ELSE /\ poolMutex' = [poolMutex EXCEPT ![l.pool] = p]
            /\ loc' = [loc EXCEPT ![p].pc = "b_inc"]
  /\ UNCHANGED <<activeConns, metricsMutex, metrics, calls, hist>>

\* variant: the admitted path returns without p.mutex.Unlock()
BeginTxIncNoUnlock(p) ==
  LET l == loc[p] IN
  /\ l.pc = "b_inc"
  /\ activeConns' = [activeConns EXCEPT ![l.pool] = @ + 1]
  /\ loc' = [loc EXCEPT ![p].pc = "b_begin"]
  /\ UNCHANGED <<poolMutex, metricsMutex, metrics, calls, hist>>

\* part_002:47-48  p.activeConns++ ; p.mutex.Unlock()
BeginTxInc(p) ==
  LET l == loc[p] IN
  /\ l.pc = "b_inc"
  /\ activeConns' = [activeConns EXCEPT ![l.pool] = @ + 1]
  /\ poolMutex' = [poolMutex EXCEPT ![l.pool] = None]
  /\ loc' = [loc EXCEPT ![p].pc = "b_begin"]
  /\ UNCHANGED <<metricsMutex, metrics, calls, hist>>

\* part_002:50-51,58  tx, err := p.db.Begin()
BeginTxDbBegin(p) ==
  LET l == loc[p] IN
  /\ l.pc = "b_begin"
  /\ \E ok \in BOOLEAN :
       loc' = [loc EXCEPT ![p] = IF ok THEN AfterBeginOk(l)
                                  ELSE [l EXCEPT !.pc = "b_undo"]]
  /\ UNCHANGED <<activeConns, poolMutex, metricsMutex, metrics, calls, hist>>

\* variant: the error branch of db.Begin returns without the decrement
ActiveAfterBeginFailureKept(n) == n

\* part_002:53  p.activeConns--  after db.Begin failed
ActiveAfterBeginFailure(n) == n - 1

\* part_002:52-55  lock ; p.activeConns-- ; unlock ; return nil, err
BeginTxUndo(p) ==
  LET l == loc[p] IN
  /\ l.pc = "b_undo"
  /\ CanLockPool(l.pool)
  /\ activeConns' = [activeConns EXCEPT ![l.pool] = ActiveAfterBeginFailure(@)]
  /\ loc' = [loc EXCEPT ![p] = AfterBeginFail(l, ErrBegin)]
  /\ UNCHANGED <<poolMutex, metricsMutex, metrics, calls, hist>>

\* part_002:62-65  lock ; defer unlock ; p.activeConns--
ReleaseTxLock(p) ==
  LET l == loc[p] IN
  /\ l.pc = "r_lock"
  /\ CanLockPool(l.pool)
  /\ poolMutex' = [poolMutex EXCEPT ![l.pool] = p]
  /\ activeConns' = [activeConns EXCEPT ![l.pool] = ActiveAfterRelease(@, l.relErr)]
  /\ loc' = [loc EXCEPT ![p] = [l EXCEPT !.pc = "r_io", !.held = FALSE,
                                         !.nRel = @ + 1]]
  /\ UNCHANGED <<metricsMutex, metrics, calls, hist>>

\* variant: the poller logs the sample whatever the cycle's outcome
AfterReleaseLogAlways(l, r) ==
  CASE l.op = "monitorDatabase" ->
         [l EXCEPT !.relRet = r, !.pc = "p_log"]
    [] OTHER ->
         [l EXCEPT !.relRet = r, !.pc = "done"]

\* ReleaseTx returned r to its caller.
AfterRelease(l, r) ==
  CASE l.op = "monitorDatabase" ->
         IF l.relErr = Nil /\ r = Nil THEN [l EXCEPT !.relRet = r, !.pc = "p_log"]
         ELSE EndCycle(l)
    [] OTHER ->
         [l EXCEPT !.relRet = r, !.pc = "done"]

\* part_002:67-72  rollback if err != nil, else commit; the deferred unlock
ReleaseTxEnd(p) ==
  LET l == loc[p] IN
  /\ l.pc = "r_io"
  /\ \E ok \in BOOLEAN :
       loc' = [loc EXCEPT ![p] =
                 AfterRelease([l EXCEPT !.txEnd = IF l.relErr # Nil
                                                    THEN "rollback" ELSE "commit"],
                              IF ok THEN Nil ELSE ErrEnd)]
  /\ poolMutex' = [poolMutex EXCEPT ![l.pool] = None]
  /\ UNCHANGED <<activeConns, metricsMutex, metrics, calls, hist>>

\* ---- monitorDatabase -----------------------------------------------------
\* metrics.go:474-477  a tick starts a cycle, which begins a transaction
Tick(p) ==
  /\ p \in Pollers
  /\ loc[p].pc = "p_idle"
  /\ loc' = [loc EXCEPT ![p] = [Idle(p) EXCEPT !.pc = "b_lock"]]
  /\ UNCHANGED <<activeConns, poolMutex, metricsMutex, metrics, calls, hist>>

\* variant: `continue` without the release
PollerReadFailedNoRelease(l) == EndCycle(l)

\* metrics.go:485-487 / 494-496  log; dbPool.ReleaseTx(tx, err); continue
PollerReadFailed(l) ==
  [l EXCEPT !.stmtErr = ErrStmt, !.relErr = ErrStmt, !.pc = "r_lock"]

\* variant: a failed read is counted as a failed request of the service
CountersAfterReadFailureCounted(m, pl, ok) ==
  IF ok THEN m ELSE [m EXCEPT ![pl].failedRequests = @ + 1]

\* metrics.go:483-497  the poller has no access to the server's counters
CountersAfterRead(m, pl, ok) == m

PollerRead(p, at, l2) ==
  LET l == loc[p] IN
  /\ p \in Pollers
  /\ l.pc = at
  /\ \E ok \in BOOLEAN :
       /\ loc' = [loc EXCEPT ![p] = IF ok THEN l2 ELSE PollerReadFailed(l)]
       /\ metrics' = CountersAfterRead(metrics, l.pool, ok)
  /\ UNCHANGED <<activeConns, poolMutex, metricsMutex, calls, hist>>

\* metrics.go:483-488  SELECT count(*) FROM pg_stat_activity ...
PollerRead1(p) == PollerRead(p, "p_q1", [loc[p] EXCEPT !.pc = "p_q2"])

\* metrics.go:492-499  SELECT pg_database_size(...); then
\* dbPool.ReleaseTx(tx, nil)
PollerRead2(p) ==
  PollerRead(p, "p_q2", [loc[p] EXCEPT !.relErr = Nil, !.pc = "r_lock"])

\* metrics.go:504-508  the sample is logged
PollerLog(p) ==
  /\ p \in Pollers
  /\ loc[p].pc = "p_log"
  /\ loc' = [loc EXCEPT ![p] = EndCycle(loc[p])]
  /\ UNCHANGED <<activeConns, poolMutex, metricsMutex, metrics, calls, hist>>

\* ---- server.metrics.mutex (sync.RWMutex) ---------------------------------
\* variants: the handlers resp. the query do not take the lock
CanLockMetricsNoWait == TRUE

CanRLockMetricsNoWait == TRUE

\* Lock() returns when there is no writer and no reader.
CanLockMetrics == metricsMutex.writer = None /\ metricsMutex.readers = {}

\* RLock() returns when there is no writer.
CanRLockMetrics == metricsMutex.writer = None

\* ---- CreateUser / GetUser -------------------------------------------------
\* metrics.go:197-205 / 247-251  entry: start := time.Now(); BeginTx on userPool
Call(p, o) ==
  /\ p \in Handlers
  /\ loc[p].pc = "idle"
  /\ calls < MaxCalls
  /\ calls' = calls + 1
  /\ loc' = [loc EXCEPT ![p] = Locals("b_lock", o, "user")]
  /\ UNCHANGED <<activeConns, poolMutex, metricsMutex, metrics, hist>>

CallCreateUser(p) == Call(p, "CreateUser")

CallGetUser(p) == Call(p, "GetUser")

\* metrics.go:219-223 (INSERT ... RETURNING id) / 265-268 (SELECT): the
\* statement run inside the session; it assigns the handler's err.
Stmt(p) ==
  LET l == loc[p] IN
  /\ l.pc = "stmt"
  /\ \E ok \in BOOLEAN :
       LET e == IF ok THEN Nil ELSE ErrStmt IN
       loc' = [loc EXCEPT ![p] = [l EXCEPT !.err = e, !.stmtErr = e,
                                           !.pc = "m_lock"]]
  /\ UNCHANGED <<activeConns, poolMutex, metricsMutex, metrics, calls, hist>>

\* metrics.go:207 / 225 / 253 / 270  s.metrics.mutex.Lock()
MetricsLock(p) ==
  /\ loc[p].pc = "m_lock"
  /\ CanLockMetrics
  /\ metricsMutex' = [metricsMutex EXCEPT !.writer = p]
  /\ loc' = [loc EXCEPT ![p].pc = "m_total_ld"]
  /\ UNCHANGED <<activeConns, poolMutex, metrics, calls, hist>>

\* variant: GetUser counts on orderService
AccumulatorOfGetUserOrder(o) == IF o = "GetUser" THEN "order" ELSE "user"

\* metrics.go:209-239 / 255-283  both handlers count on s.metrics.userService
AccumulatorOf(o) == "user"

\* the load half of `s.metrics.userService.<field> += ...`
Load(p, at, field, next) ==
  /\ loc[p].pc = at
  /\ loc' = [loc EXCEPT ![p] = [@ EXCEPT !.tmp = metrics[AccumulatorOf(loc[p].op)][field],
                                         !.pc = next]]
  /\ UNCHANGED <<activeConns, poolMutex, metricsMutex, metrics, calls, hist>>

\* variant: `=` for `+=`
AddedAssigned(old, delta) == delta

\* metrics.go:209-210, 227-228, 231, 239 / 255-256, 272-273, 276, 283
\* `x++` and `x += d`: the value stored is the value loaded plus the delta
Added(old, delta) == old + delta

\* what a store of tmp + delta changes the counter by (1 resp. the latency
\* when nothing was written between the load and the store)
Effect(p, field, delta) ==
  Added(loc[p].tmp, delta) - metrics[AccumulatorOf(loc[p].op)][field]

\* the store half; l2 is the goroutine's locals after the statement
Store(p, at, field, delta, l2) ==
  /\ loc[p].pc = at
  /\ metrics' = [metrics EXCEPT ![AccumulatorOf(loc[p].op)][field] =
                                   Added(loc[p].tmp, delta)]
  /\ loc' = [loc EXCEPT ![p] = [l2 EXCEPT !.tmp = 0]]
  /\ UNCHANGED <<activeConns, poolMutex, metricsMutex, calls, hist>>

\* metrics.go:209-210: the BeginTx-failure path counts total and failed only;
\* metrics.go:227-228: after the statement, total and then the latency.
NextAfterTotal(l) == IF l.nAcq = 0 THEN "m_fail_ld" ELSE "m_lat_ld"

\* metrics.go:230 / 275  if err != nil { failedRequests++ ... }
NextAfterLatency(l) == IF l.err # Nil THEN "m_fail_ld" ELSE "m_succ_ld"

\* variant: the error branch lacks its return and falls through
NextAfterFailedFallThrough(l) == "m_succ_ld"

\* metrics.go:231-236 / 210-215: the error branch returns after failedRequests++
NextAfterFailed(l) == "m_unlock"

\* variant: the error is returned as the handler's second result
ErrorRespTransport(l) == [NoResp EXCEPT !.terr = l.err]

\* variant: the error response is built without the error text
ErrorRespNoText(l) == [NoResp EXCEPT !.status = "error"]

\* metrics.go:212-215 / 233-236 / 258-260 / 278-280: the error goes into the
\* response, the handler's error result is nil
ErrorResp(l) == [NoResp EXCEPT !.status = "error", !.error = l.err]

SuccessResp(l) == [NoResp EXCEPT !.status = "success"]

\* metrics.go:209 / 227 / 255 / 272  totalRequests++
TotalLoad(p) == Load(p, "m_total_ld", "totalRequests", "m_total_st")

TotalStore(p) ==
  Store(p, "m_total_st", "totalRequests", 1,
        [loc[p] EXCEPT !.recT = @ + Effect(p, "totalRequests", 1),
                       !.pc = NextAfterTotal(loc[p])])

\* metrics.go:228 / 273  totalLatency += uint64(time.Since(start).Milliseconds())
LatencyLoad(p) == Load(p, "m_lat_ld", "totalLatency", "m_lat_st")

LatencyStore(p) ==
  \E d \in Latencies :
    Store(p, "m_lat_st", "totalLatency", d,
          [loc[p] EXCEPT !.lat = @ + Effect(p, "totalLatency", d),
                         !.pc = NextAfterLatency(loc[p])])

\* metrics.go:210 / 231 / 256 / 276  failedRequests++ and the error response
FailedLoad(p) == Load(p, "m_fail_ld", "failedRequests", "m_fail_st")

FailedStore(p) ==
  Store(p, "m_fail_st", "failedRequests", 1,
        [loc[p] EXCEPT !.recF = @ + Effect(p, "failedRequests", 1),
                       !.resp = ErrorResp(loc[p]),
                       !.pc = NextAfterFailed(loc[p])])

\* variant: the deferred ReleaseTx runs before the deferred Unlock
FirstDeferredReleaseFirst(l) == IF l.held THEN "r_lock" ELSE "m_unlock"

\* metrics.go:217, 225-226 / 262, 270-271: the Unlock is deferred after the
\* ReleaseTx, and deferred calls run last-in first-out, so the return of the
\* handler runs the Unlock first
FirstDeferred(l) == "m_unlock"

\* metrics.go:239 / 283  successfulRequests++ and the success response
SuccessLoad(p) == Load(p, "m_succ_ld", "successfulRequests", "m_succ_st")

SuccessStore(p) ==
  Store(p, "m_succ_st", "successfulRequests", 1,
        [loc[p] EXCEPT !.recS = @ + Effect(p, "successfulRequests", 1),
                       !.resp = SuccessResp(loc[p]),
                       !.pc = FirstDeferred(loc[p])])

\* the deferred s.metrics.mutex.Unlock() (208 / 226 / 254 / 271); deferred
\* calls run last-in first-out, so the deferred ReleaseTx (217 / 262) follows.
MetricsUnlock(p) ==
  LET l == loc[p] IN
  /\ l.pc = "m_unlock"
  /\ metricsMutex' = [metricsMutex EXCEPT !.writer = None]
  /\ loc' = [loc EXCEPT ![p].pc = IF l.held THEN "r_lock" ELSE "done"]
  /\ UNCHANGED <<activeConns, poolMutex, metrics, calls, hist>>

\* ---- GetDatabaseMetrics ---------------------------------------------------
\* variant: the default case falls back to the user pool
PoolOfDefaultUser(name) == IF name \in Pools THEN name ELSE "user"

\* metrics.go:320-328  case "user": userPool; case "order": orderPool;
\* default: no pool, the call fails
PoolOf(name) == IF name \in Pools THEN name ELSE "none"

\* metrics.go:320-330  pool selection by name, then BeginTx
CallGetDatabaseMetrics(p) ==
  /\ p \in Handlers
  /\ loc[p].pc = "idle"
  /\ \E name \in Names :
       loc' = [loc EXCEPT ![p] =
                 IF PoolOf(name) # "none"
                   THEN [Locals("b_lock", "GetDatabaseMetrics", PoolOf(name))
                           EXCEPT !.svc = name]
                   ELSE [Locals("done", "GetDatabaseMetrics", "none")
                           EXCEPT !.svc = name, !.resp.terr = ErrUnknown]]
  /\ UNCHANGED <<activeConns, poolMutex, metricsMutex, metrics, calls, hist>>

\* variant: the release is not deferred but written at the end of the
\* function, so that the early return skips it
DbMetricsReadFailedNoRelease(l) ==
  [l EXCEPT !.stmtErr = ErrStmt, !.resp.terr = ErrStmt, !.pc = "done"]

\* metrics.go:338-340 / 344-346  return nil, err; the deferred ReleaseTx runs
DbMetricsReadFailed(l) ==
  [l EXCEPT !.stmtErr = ErrStmt, !.resp.terr = ErrStmt, !.pc = "r_lock"]

\* metrics.go:337-340 / 343-351  an introspection read; a failure returns
\* (nil, err) and the deferred ReleaseTx runs.
DbMetricsRead(p, at, l2) ==
  LET l == loc[p] IN
  /\ l.pc = at
  /\ \E ok \in BOOLEAN :
       loc' = [loc EXCEPT ![p] =
                 IF ok THEN l2 ELSE DbMetricsReadFailed(l)]
  /\ UNCHANGED <<activeConns, poolMutex, metricsMutex, metrics, calls, hist>>

DbMetricsRead1(p) == DbMetricsRead(p, "q1", [loc[p] EXCEPT !.pc = "q2"])

DbMetricsRead2(p) ==
  DbMetricsRead(p, "q2", [loc[p] EXCEPT !.resp.status = "ok", !.pc = "r_lock"])

\* ---- GetServiceMetrics ----------------------------------------------------
\* metrics.go:297  entry
\* the CreateUser/GetUser invocations that have returned, by the outcome in
\* their response: those handed back to the runtime and those at their return
Returned ==
  LET atReturn(st) == {h \in Handlers : /\ loc[h].op \in MetricOps
                                         /\ loc[h].pc = "done"
                                         /\ loc[h].resp.status = st} IN
  [succ |-> hist.succ + Cardinality(atReturn("success")),
   fail |-> hist.fail + Cardinality(atReturn("error"))]

CallGetServiceMetrics(p) ==
  /\ p \in Handlers
  /\ loc[p].pc = "idle"
  /\ \E name \in Names :
       loc' = [loc EXCEPT ![p] =
                 [Locals("g_rlock", "GetServiceMetrics", "none")
                    EXCEPT !.svc = name, !.seen = Returned]]
  /\ UNCHANGED <<activeConns, poolMutex, metricsMutex, metrics, calls, hist>>

\* variant: the switch lacks the "order" case
KnownServiceUserOnly(name) == name = "user"

\* metrics.go:302-309  the cases of the switch on req.ServiceName
KnownService(name) == name \in Services

\* variant: every case selects orderService
MetricsForOrderOnly(name) == "order"

\* metrics.go:303-306  case "user": userService; case "order": orderService
MetricsFor(name) == name

\* metrics.go:298-309  RLock, then the switch on the service name
GsmRLock(p) ==
  LET l == loc[p] IN
  /\ l.pc = "g_rlock"
  /\ CanRLockMetrics
  /\ metricsMutex' = [metricsMutex EXCEPT !.readers = @ \cup {p}]
  /\ loc' = [loc EXCEPT ![p] =
               IF KnownService(l.svc) THEN [l EXCEPT !.pc = "g_total"]
               ELSE [l EXCEPT !.resp.terr = ErrUnknown, !.pc = "g_runlock"]]
  /\ UNCHANGED <<activeConns, poolMutex, metrics, calls, hist>>

GsmRead(p, at, l2) ==
  /\ loc[p].pc = at
  /\ loc' = [loc EXCEPT ![p] = l2]
  /\ UNCHANGED <<activeConns, poolMutex, metricsMutex, metrics, calls, hist>>

\* metrics.go:312  TotalRequests: metrics.totalRequests
GsmReadTotal(p) ==
  GsmRead(p, "g_total", [loc[p] EXCEPT
     !.resp.total = metrics[MetricsFor(loc[p].svc)].totalRequests, !.pc = "g_succ"])

\* metrics.go:313  SuccessfulRequests: metrics.successfulRequests
GsmReadSuccessful(p) ==
  GsmRead(p, "g_succ", [loc[p] EXCEPT
     !.resp.succ = metrics[MetricsFor(loc[p].svc)].successfulRequests, !.pc = "g_fail"])

\* metrics.go:314  FailedRequests: metrics.failedRequests
GsmReadFailed(p) ==
  GsmRead(p, "g_fail", [loc[p] EXCEPT
     !.resp.fail = metrics[MetricsFor(loc[p].svc)].failedRequests, !.pc = "g_avg"])

\* metrics.go:315  float64(totalLatency) / float64(successfulRequests)
AverageLatencyMs(m) == Float64Div(m.totalLatency, m.successfulRequests)

GsmReadAverage(p) ==
  GsmRead(p, "g_avg", [loc[p] EXCEPT
     !.resp.avg = AverageLatencyMs(metrics[MetricsFor(loc[p].svc)]),
     !.resp.status = "ok", !.pc = "g_runlock"])

\* metrics.go:299  the deferred RUnlock
GsmRUnlock(p) ==
  /\ loc[p].pc = "g_runlock"
  /\ metricsMutex' = [metricsMutex EXCEPT !.readers = @ \ {p}]
  /\ loc' = [loc EXCEPT ![p].pc = "done"]
  /\ UNCHANGED <<activeConns, poolMutex, metrics, calls, hist>>

\* ---- GetKafkaMetrics -------------------------------------------------------
\* metrics.go:354-361  stats := s.kafkaReader.Stats(); the response copies
\* the reader's own counters.  Nothing of the server is read or written.
CallGetKafkaMetrics(p) ==
  /\ p \in Handlers
  /\ loc[p].pc = "idle"
  /\ loc' = [loc EXCEPT ![p] =
               [Locals("done", "GetKafkaMetrics", "none") EXCEPT !.resp.status = "ok"]]
  /\ UNCHANGED <<activeConns, poolMutex, metricsMutex, metrics, calls, hist>>

\* ---- return to the gRPC runtime -------------------------------------------
\* The handler has returned its response; the history records the outcome
\* the caller saw and, for a success, the latency the invocation added.
Return(p) ==
  LET l == loc[p]
      ok == l.resp.status = "success" IN
  /\ p \in Handlers
  /\ l.pc = "done"
  /\ hist' = IF l.op \in MetricOps
               THEN [succ |-> hist.succ + (IF ok THEN 1 ELSE 0),
                     fail |-> hist.fail + (IF ok THEN 0 ELSE 1),
                     lat  |-> hist.lat + (IF ok THEN l.lat ELSE 0)]
               ELSE hist
  /\ loc' = [loc EXCEPT ![p] = Idle(p)]
  /\ UNCHANGED <<activeConns, poolMutex, metricsMutex, metrics, calls>>

\* ---- monitorKafka ------------------------------------------------------------
\* what reader.Stats() can return: the messages and bytes received and the
\* lag since the previous call
KafkaStats == {[messages |-> m, bytes |-> m, lag |-> g] : m \in 0..1, g \in 0..1}

\* metrics.go:523-525  a tick; stats := reader.Stats() on the goroutine's own
\* reader
KafkaTick ==
  /\ bg.kafka.pc = "k_idle"
  /\ \E st \in KafkaStats :
       bg' = [bg EXCEPT !.kafka = [pc |-> "k_log", stats |-> st, out |-> NoStats]]
  /\ UNCHANGED bgRest

\* metrics.go:526-531  logrus.WithFields(...).Info("Kafka Metrics")
KafkaLog ==
  /\ bg.kafka.pc = "k_log"
  /\ bg' = [bg EXCEPT !.kafka = [pc |-> "k_idle", stats |-> NoStats,
                                  out |-> bg.kafka.stats]]
  /\ UNCHANGED bgRest

\* ---- reportMetrics -----------------------------------------------------------
\* metrics.go:459  a tick of the one-second ticker
ReportTick(s) ==
  /\ bg.report[s].pc = "rp_idle"
  /\ bg' = [bg EXCEPT !.report[s] = [ReportInit EXCEPT !.pc = "rp_total"]]
  /\ UNCHANGED bgRest

\* one read of the Fields literal: reportMetrics has the *Metrics only, it
\* takes no lock
ReportRead(s, at, r2) ==
  /\ bg.report[s].pc = at
  /\ bg' = [bg EXCEPT !.report[s] = r2]
  /\ UNCHANGED bgRest

\* metrics.go:462  "total_requests": metrics.totalRequests
ReportReadTotal(s) ==
  ReportRead(s, "rp_total", [bg.report[s] EXCEPT
     !.total = metrics[s].totalRequests, !.pc = "rp_succ"])

\* metrics.go:463  "successful_requests": metrics.successfulRequests
ReportReadSuccessful(s) ==
  ReportRead(s, "rp_succ", [bg.report[s] EXCEPT
     !.succ = metrics[s].successfulRequests, !.pc = "rp_fail"])

\* metrics.go:464  "failed_requests": metrics.failedRequests
ReportReadFailed(s) ==
  ReportRead(s, "rp_fail", [bg.report[s] EXCEPT
     !.fail = metrics[s].failedRequests, !.pc = "rp_lat"])

\* metrics.go:465  float64(metrics.totalLatency) ...
ReportReadLatency(s) ==
  ReportRead(s, "rp_lat", [bg.report[s] EXCEPT
     !.lat = metrics[s].totalLatency, !.pc = "rp_div"])

\* metrics.go:465  ... / float64(metrics.successfulRequests)
ReportReadDivisor(s) ==
  ReportRead(s, "rp_div", [bg.report[s] EXCEPT
     !.avg = Float64Div(bg.report[s].lat, metrics[s].successfulRequests),
     !.pc = "rp_log"])

\* metrics.go:460-466  .Info("Service Metrics")
ReportLog(s) ==
  LET r == bg.report[s] IN
  ReportRead(s, "rp_log", [r EXCEPT
     !.out = [total |-> r.total, succ |-> r.succ, fail |-> r.fail, avg |-> r.avg],
     !.pc = "rp_idle"])

\* ---- the dashboard: WebSocketService and App -----------------------------------
\* websocket.js:8  this.maxReconnectAttempts = 5
maxReconnectAttempts == 5

\* part_001:60, 68, 77  .slice(-20)
WindowSize == 20

\* variant: slice(0, 20)
SliceFromStart(q, k) == SubSeq(q, 1, IF Len(q) < k THEN Len(q) ELSE k)

\* Array.prototype.slice(-k): the last k elements, all of them if there are
\* fewer
SliceLast(q, k) == IF Len(q) <= k THEN q ELSE SubSeq(q, Len(q) - k + 1, Len(q))

Sections == {"serviceMetrics", "databaseMetrics", "kafkaMetrics"}

\* part_001:54-59, 64-67, 72-76  the entry appended for a section of the update
ServiceEntry(t, v) ==
  [timestamp |-> t, totalRequests |-> v, successfulRequests |-> v,
   failedRequests |-> v, averageLatencyMs |-> v]

DatabaseEntry(t, v) ==
  [timestamp |-> t, activeConnections |-> v, databaseSizeMb |-> v]

KafkaEntry(t, v) ==
  [timestamp |-> t, messagesReceived |-> v, bytesReceived |-> v, lag |-> v]

\* part_001:47-81  handleMetricsUpdate: the state setMetrics computes from
\* the previous state, the update and the time of its arrival
handleMetricsUpdate(prev, data, t) ==
  [prev EXCEPT
     !.userService = IF "serviceMetrics" \in data.sections
                       THEN SliceLast(Append(@, ServiceEntry(t, data.v)), WindowSize)
                       ELSE @,
     !.database = IF "databaseMetrics" \in data.sections
                    THEN SliceLast(Append(@, DatabaseEntry(t, data.v)), WindowSize)
                    ELSE @,
     !.kafka = IF "kafkaMetrics" \in data.sections
                 THEN SliceLast(Append(@, KafkaEntry(t, data.v)), WindowSize)
                 ELSE @]

\* every entry that has arrived for a series, the window apart
Arrived(prev, data, t) ==
  [prev EXCEPT
     !.userService = IF "serviceMetrics" \in data.sections
                       THEN Append(@, ServiceEntry(t, data.v)) ELSE @,
     !.database = IF "databaseMetrics" \in data.sections
                    THEN Append(@, DatabaseEntry(t, data.v)) ELSE @,
     !.kafka = IF "kafkaMetrics" \in data.sections
                 THEN Append(@, KafkaEntry(t, data.v)) ELSE @]

\* websocket.js:11-50  connect(): nothing if this.socket is set, otherwise a
\* new socket, which starts connecting
connect(w) ==
  IF w.socket # NoSocket THEN w
  ELSE [w EXCEPT !.socket = w.made + 1, !.made = @ + 1, !.conn = "connecting",
                 !.reason = ""]

\* websocket.js:58-62  handleDisconnect(reason)
handleDisconnect(w, reason) ==
  IF reason = "io server disconnect" THEN connect(w) ELSE w

\* part_001:43-45, 83  useEffect: ws.connect(); ws.subscribe('metrics', ...)
Mount ==
  /\ ~fe.mounted
  /\ fe.ws.made < MaxSockets
  /\ fe' = [fe EXCEPT !.mounted = TRUE,
                      !.ws = [connect(fe.ws) EXCEPT !.subscribed = TRUE],
                      !.metrics = NoSeries, !.arrived = NoSeries]
  /\ UNCHANGED feRest

\* websocket.js:26-29  'connect': the connection is up, also after the
\* client's own reconnection
OnConnect ==
  /\ \/ fe.ws.conn = "connecting"
     \/ fe.ws.conn = "reconnecting" /\ fe.ws.reconnectAttempts >= 1
  /\ fe' = [fe EXCEPT !.ws.conn = "connected", !.ws.reconnectAttempts = 0,
                      !.ws.reason = ""]
  /\ UNCHANGED feRest

\* websocket.js:31-34, 77-81  'metrics_update': notifyListeners('metrics',
\* data) calls the subscribed handleMetricsUpdate
MetricsUpdate ==
  /\ fe.ws.conn = "connected"
  /\ fe.sent < MaxUpdates
  /\ \E S \in SUBSET Sections :
       LET data == [sections |-> S, v |-> fe.sent + 1]
           t == fe.now + 1 IN
       /\ S # Sections => fe.partial < MaxPartial
       /\ fe' = [fe EXCEPT
                   !.sent = @ + 1, !.now = t,
                   !.partial = IF S # Sections THEN @ + 1 ELSE @,
                   !.metrics = IF fe.ws.subscribed
                                 THEN handleMetricsUpdate(@, data, t) ELSE @,
                   !.arrived = IF fe.ws.subscribed
                                 THEN Arrived(@, data, t) ELSE @]
  /\ UNCHANGED feRest

\* websocket.js:41-44  'disconnect' with the reason the server's own
\* disconnect gives; the client library does not reconnect by itself then
ServerDisconnect ==
  /\ fe.ws.conn = "connected"
  /\ fe' = [fe EXCEPT !.ws = handleDisconnect(
                 [fe.ws EXCEPT !.conn = "closed", !.reason = "io server disconnect"],
                 "io server disconnect")]
  /\ UNCHANGED feRest

\* websocket.js:41-44, 20-22  'disconnect' for a lost transport; the client
\* library reconnects by itself (reconnection: true)
TransportClose ==
  /\ fe.ws.conn = "connected"
  /\ fe' = [fe EXCEPT !.ws = handleDisconnect(
                 [fe.ws EXCEPT !.conn = "reconnecting", !.reason = "transport close"],
                 "transport close")]
  /\ UNCHANGED feRest

\* websocket.js:46-49  'reconnect_attempt': this.reconnectAttempts++
ReconnectAttempt ==
  /\ fe.ws.conn = "reconnecting"
  /\ fe.ws.reconnectAttempts < maxReconnectAttempts
  /\ fe' = [fe EXCEPT !.ws.reconnectAttempts = @ + 1]
  /\ UNCHANGED feRest

\* websocket.js:21  reconnectionAttempts: the library gives up after the
\* last attempt failed
ReconnectFailed ==
  /\ fe.ws.conn = "reconnecting"
  /\ fe.ws.reconnectAttempts = maxReconnectAttempts
  /\ fe' = [fe EXCEPT !.ws.conn = "closed"]
  /\ UNCHANGED feRest

\* websocket.js:83-89  disconnect()
disconnect(w) ==
  IF w.socket # NoSocket
    THEN [w EXCEPT !.socket = NoSocket, !.conn = "none", !.subscribed = FALSE]
    ELSE w

\* part_001:85-88  the cleanup of the effect: unsubscribe, disconnect; the
\* component's state goes with the component
Unmount ==
  /\ fe.mounted
  /\ fe' = [fe EXCEPT !.mounted = FALSE,
                      !.ws = disconnect([fe.ws EXCEPT !.subscribed = FALSE]),
                      !.metrics = NoSeries, !.arrived = NoSeries]
  /\ UNCHANGED feRest

NextFrontend ==
  \/ Mount \/ OnConnect \/ MetricsUpdate \/ ServerDisconnect \/ TransportClose
  \/ ReconnectAttempt \/ ReconnectFailed \/ Unmount

SpecFrontend == Init /\ [][NextFrontend]_vars

\* ---- what the pollers log, and the samples ---------------------------------
\* metrics.go:480, 485, 494, 500  logrus.Errorf, whatever came before
FailureLevel(streak) == "error"

\* metrics.go:480 BeginTx failed; 485 / 494 a read failed; 500 the release
\* after two good reads failed
CycleFailed(q) ==
  \/ loc[q].pc \in {"b_lock", "b_undo"} /\ loc'[q].pc = "p_idle"
  \/ loc[q].pc \in {"p_q1", "p_q2"} /\ loc'[q].stmtErr # Nil
  \/ loc[q].pc = "r_io" /\ loc[q].relErr = Nil /\ loc'[q].pc = "p_idle"

\* metrics.go:504-508  logrus.WithFields(...).Info("Database Metrics")
CycleLogged(q) == loc[q].pc = "p_log" /\ loc'[q].pc # "p_log"

\* the log after a step of p
LogAfter(p) ==
  IF p \notin Pollers THEN plog
  ELSE IF CycleFailed(p)
    THEN [plog EXCEPT ![p] =
            [streak |-> IF @.streak < MaxStreak THEN @.streak + 1 ELSE @.streak,
             level  |-> FailureLevel(@.streak + 1)]]
  ELSE IF CycleLogged(p)
    THEN [plog EXCEPT ![p] = [streak |-> 0, level |-> "info"]]
  ELSE plog

\* variant: one package-level sample that every goroutine writes and reads
SampleSlotShared(p) == CHOOSE x \in Procs : TRUE

\* metrics.go:476, 491 / 335, 342  var activeConnections, var dbSize: local
\* variables of the loop body resp. of the handler
SampleSlot(p) == p

Tag(p) == <<p, sample.cyc[p]>>

\* the samples after a step of p
SampleAfter(p) ==
  LET at == loc[p].pc
      to == loc'[p].pc
      sl == SampleSlot(p) IN
  CASE at \in {"p_idle", "idle"} /\ to # at ->
         \* a new cycle resp. invocation
         [sample EXCEPT !.cyc[p] = 1 - @, !.out[p] = NoSample]
    [] at \in {"p_q1", "q1"} /\ loc'[p].stmtErr = Nil ->
         \* metrics.go:484 / 337  row.Scan(&activeConnections)
         [sample EXCEPT !.slot[sl].ac = Tag(p)]
    [] at = "p_q2" /\ loc'[p].stmtErr = Nil ->
         \* metrics.go:493  row.Scan(&dbSize)
         [sample EXCEPT !.slot[sl].size = Tag(p)]
    [] at = "q2" /\ loc'[p].stmtErr = Nil ->
         \* metrics.go:344, 349-352  row.Scan(&dbSize) and the response
         [sample EXCEPT !.slot[sl].size = Tag(p),
                        !.out[p] = [ac |-> sample.slot[sl].ac, size |-> Tag(p)]]
    [] at = "p_log" /\ to # at ->
         \* metrics.go:504-508  the log line carries both values; the end of
         \* the loop body
         [sample EXCEPT !.out[p] = sample.slot[sl], !.slot[sl] = NoSample]
    [] at = "done" /\ to # at ->
         \* the response is delivered
         [sample EXCEPT !.out[p] = NoSample, !.slot[sl] = NoSample]
    [] to \in {"p_idle", "done"} /\ to # at ->
         \* `continue` resp. return: the local variables go out of scope
         [sample EXCEPT !.slot[sl] = NoSample]
    [] OTHER -> sample

Observe(p) ==
  plog' = LogAfter(p) /\ sample' = SampleAfter(p) /\ UNCHANGED <<us, store, bg, fe>>

\* the pollers and one GetDatabaseMetrics handler goroutine, with what they
\* log and publish
PollerProcs == Pollers \cup {CHOOSE h \in Handlers : TRUE}

NextPoller ==
  \E p \in PollerProcs :
    \/ Tick(p) /\ Observe(p)
    \/ CallGetDatabaseMetrics(p) /\ Observe(p)
    \/ BeginTxAdmit(p) /\ Observe(p)
    \/ BeginTxInc(p) /\ Observe(p)
    \/ BeginTxDbBegin(p) /\ Observe(p)
    \/ BeginTxUndo(p) /\ Observe(p)
    \/ PollerRead1(p) /\ Observe(p)
    \/ PollerRead2(p) /\ Observe(p)
    \/ DbMetricsRead1(p) /\ Observe(p)
    \/ DbMetricsRead2(p) /\ Observe(p)
    \/ ReleaseTxLock(p) /\ Observe(p)
    \/ ReleaseTxEnd(p) /\ Observe(p)
    \/ PollerLog(p) /\ Observe(p)
    \/ Return(p) /\ Observe(p)
    \/ KafkaTick
    \/ KafkaLog

SpecPoller == Init /\ [][NextPoller]_vars

\* ---- the users table behind CreateUser and GetUser -------------------------
\* the table after ReleaseTx ended the session of an INSERT: the row is there
\* when the commit was called and succeeded
RowsAfterEnd(rows, row, txEnd, ret) ==
  IF txEnd = "commit" /\ ret = Nil THEN rows \cup {row} ELSE rows

\* what a step of handler p does to the table and to the data of its call
StoreStep(p) ==
  LET at == loc[p].pc
      l2 == loc'[p]
      io == store.io[p]
      hit == {r \in store.rows : r.id = io.id} IN
  CASE at = "idle" /\ l2.op = "CreateUser" ->
         \E u \in Users :
           store' = [store EXCEPT !.io[p] = [NoIo EXCEPT !.user = u]]
    [] at = "idle" /\ l2.op = "GetUser" ->
         \E i \in Ids :
           store' = [store EXCEPT !.io[p] =
                       [NoIo EXCEPT !.id = i, !.known = store.created]]
    [] at = "stmt" /\ l2.op = "CreateUser" ->
         \* metrics.go:219-223  INSERT ... RETURNING id: the next value of
         \* the SERIAL column; the row is the transaction's own until commit
         IF l2.stmtErr = Nil
           THEN store' = [store EXCEPT
                            !.seq = @ + 1,
                            !.io[p].row = [id |-> store.seq + 1,
                                           name |-> io.user.name,
                                           email |-> io.user.email]]
           ELSE UNCHANGED store
    [] at = "stmt" /\ l2.op = "GetUser" ->
         \* metrics.go:265-268  SELECT name, email FROM users WHERE id = $1:
         \* Scan succeeds only on a committed row
         IF l2.stmtErr = Nil
           THEN /\ hit # {}
                /\ store' = [store EXCEPT !.io[p].found = CHOOSE r \in hit : TRUE]
           ELSE store' = [store EXCEPT !.io[p].noRows = (hit = {})]
    [] at = "r_io" /\ io.row # NoRow ->
         \* part_002:67-72  tx.Rollback() / tx.Commit()
         store' = [store EXCEPT
                     !.rows = RowsAfterEnd(@, io.row, l2.txEnd, l2.relRet)]
    [] at = "done" ->
         \* the caller has the response: a success tells it of the row
         store' = [store EXCEPT
                     !.created = IF loc[p].op = "CreateUser"
                                      /\ loc[p].resp.status = "success"
                                   THEN @ \cup {io.row} ELSE @,
                     !.io[p] = NoIo]
    [] OTHER -> UNCHANGED store

StoreObserve(p) == StoreStep(p) /\ UNCHANGED <<us, plog, sample, bg, fe>>

\* the CreateUser and GetUser handlers with the table they work on
NextStore ==
  \E p \in Handlers :
    \/ CallCreateUser(p) /\ StoreObserve(p)
    \/ CallGetUser(p) /\ StoreObserve(p)
    \/ BeginTxAdmit(p) /\ StoreObserve(p)
    \/ BeginTxInc(p) /\ StoreObserve(p)
    \/ BeginTxDbBegin(p) /\ StoreObserve(p)
    \/ BeginTxUndo(p) /\ StoreObserve(p)
    \/ Stmt(p) /\ StoreObserve(p)
    \/ MetricsLock(p) /\ StoreObserve(p)
    \/ TotalLoad(p) /\ StoreObserve(p)
    \/ TotalStore(p) /\ StoreObserve(p)
    \/ LatencyLoad(p) /\ StoreObserve(p)
    \/ LatencyStore(p) /\ StoreObserve(p)
    \/ FailedLoad(p) /\ StoreObserve(p)
    \/ FailedStore(p) /\ StoreObserve(p)
    \/ SuccessLoad(p) /\ StoreObserve(p)
    \/ SuccessStore(p) /\ StoreObserve(p)
    \/ MetricsUnlock(p) /\ StoreObserve(p)
    \/ ReleaseTxLock(p) /\ StoreObserve(p)
    \/ ReleaseTxEnd(p) /\ StoreObserve(p)
    \/ Return(p) /\ StoreObserve(p)

SpecStore == Init /\ [][NextStore]_vars

\* the CreateUser and GetUser handlers with the reportMetrics goroutine
NextReport ==
  \/ \E p \in Handlers :
       \/ CallCreateUser(p) /\ UNCHANGED aux
       \/ CallGetUser(p) /\ UNCHANGED aux
       \/ BeginTxAdmit(p) /\ UNCHANGED aux
       \/ BeginTxInc(p) /\ UNCHANGED aux
       \/ BeginTxDbBegin(p) /\ UNCHANGED aux
       \/ BeginTxUndo(p) /\ UNCHANGED aux
       \/ Stmt(p) /\ UNCHANGED aux
       \/ MetricsLock(p) /\ UNCHANGED aux
       \/ TotalLoad(p) /\ UNCHANGED aux
       \/ TotalStore(p) /\ UNCHANGED aux
       \/ LatencyLoad(p) /\ UNCHANGED aux
       \/ LatencyStore(p) /\ UNCHANGED aux
       \/ FailedLoad(p) /\ UNCHANGED aux
       \/ FailedStore(p) /\ UNCHANGED aux
       \/ SuccessLoad(p) /\ UNCHANGED aux
       \/ SuccessStore(p) /\ UNCHANGED aux
       \/ MetricsUnlock(p) /\ UNCHANGED aux
       \/ ReleaseTxLock(p) /\ UNCHANGED aux
       \/ ReleaseTxEnd(p) /\ UNCHANGED aux
       \/ Return(p) /\ UNCHANGED aux
  \/ \E s \in ReportedServices :
       \/ ReportTick(s)
       \/ ReportReadTotal(s)
       \/ ReportReadSuccessful(s)
       \/ ReportReadFailed(s)
       \/ ReportReadLatency(s)
       \/ ReportReadDivisor(s)
       \/ ReportLog(s)

SpecReport == Init /\ [][NextReport]_vars

\* ---- user service (service1): CreateUser ---------------------------------
\* service1/main.go:136  for retries := 0; retries < 3; retries++
PublishAttempts == 3

\* service1/main.go:142  time.Duration(retries+1) * 100 * time.Millisecond
BackoffUnitMs == 100

UserStep(c2) == us' = [us EXCEPT !.call = c2]

\* the gRPC runtime invokes CreateUser
UserCall ==
  /\ us.call.pc = "idle"
  /\ us.calls < MaxUserCalls
  /\ us' = [us EXCEPT !.calls = @ + 1,
                      !.call = [UserCallLocals EXCEPT !.pc = "begin"]]
  /\ UNCHANGED userRest

\* service1/main.go:106-110  tx, err := s.db.BeginTx(ctx, nil); a failure
\* returns before the rollback is deferred
UserBeginTx ==
  LET c == us.call IN
  /\ c.pc = "begin"
  /\ \E ok \in BOOLEAN :
       UserStep(IF ok THEN [c EXCEPT !.tx = "open", !.pc = "insert"]
                ELSE [c EXCEPT !.err = ErrBegin, !.resp.terr = ErrBegin,
                               !.pc = "done"])
  /\ UNCHANGED userRest

\* service1/main.go:119-127  INSERT INTO users ... RETURNING id
UserInsert ==
  LET c == us.call IN
  /\ c.pc = "insert"
  /\ \E ok \in BOOLEAN :
       IF ok
         THEN us' = [us EXCEPT !.seq = @ + 1,
                               !.call = [c EXCEPT !.err = Nil, !.id = us.seq + 1,
                                                  !.pc = "publish"]]
         ELSE UserStep([c EXCEPT !.err = ErrStmt, !.resp.terr = ErrStmt,
                                 !.pc = "deferred"])
  /\ UNCHANGED userRest

\* service1/main.go:136  the loop header: retries++ ; retries < 3
AfterIteration(c) ==
  [c EXCEPT !.retries = @ + 1,
            !.pc = IF c.retries + 1 < PublishAttempts THEN "publish" ELSE "check"]

\* variant: the loop has no break
WriteOkNoBreak(c) == AfterIteration([c EXCEPT !.err = Nil, !.oks = @ + 1])

\* service1/main.go:137-140  err == nil: break
WriteOk(c) == [c EXCEPT !.err = Nil, !.oks = @ + 1, !.pc = "check"]

\* service1/main.go:137-141  err = s.kafkaWriter.WriteMessages(ctx, msg)
UserWriteMessages ==
  LET c == us.call IN
  /\ c.pc = "publish"
  /\ \E ok \in BOOLEAN :
       IF ok
         THEN us' = [us EXCEPT !.events = @ \cup {c.id}, !.call = WriteOk(c)]
         ELSE UserStep([c EXCEPT !.err = ErrPublish, !.fails = @ + 1,
                                 !.pc = "sleep"])
  /\ UNCHANGED userRest

\* service1/main.go:142  the delay after the failed attempt number retries+1
BackoffDelay(retries) == (retries + 1) * BackoffUnitMs

\* service1/main.go:142, 136  time.Sleep(...), then the next iteration
UserSleep ==
  LET c == us.call IN
  /\ c.pc = "sleep"
  /\ UserStep(AfterIteration([c EXCEPT !.slept = @ + BackoffDelay(c.retries)]))
  /\ UNCHANGED userRest

\* service1/main.go:145-148  if err != nil: failed to publish event
UserCheckPublish ==
  LET c == us.call IN
  /\ c.pc = "check"
  /\ UserStep(IF c.err # Nil
                THEN [c EXCEPT !.resp.terr = ErrPublish, !.pc = "deferred"]
                ELSE [c EXCEPT !.pc = "commit"])
  /\ UNCHANGED userRest

\* service1/main.go:151-157  err = tx.Commit(); the response carries the id
UserCommit ==
  LET c == us.call IN
  /\ c.pc = "commit"
  /\ \E ok \in BOOLEAN :
       IF ok
         THEN us' = [us EXCEPT !.rows = @ \cup {c.id},
                               !.call = [c EXCEPT !.err = Nil, !.tx = "committed",
                                                  !.resp.id = c.id,
                                                  !.pc = "deferred"]]
         ELSE UserStep([c EXCEPT !.err = ErrEnd, !.tx = "failed",
                                 !.resp.terr = ErrEnd, !.pc = "deferred"])
  /\ UNCHANGED userRest

\* variant: the deferred function does not roll back
UserDeferredNoRollback ==
  /\ us.call.pc = "deferred"
  /\ UserStep([us.call EXCEPT !.pc = "done"])
  /\ UNCHANGED userRest

\* service1/main.go:111-117  the deferred function: if err != nil, Rollback;
\* a transaction whose Commit was called is finished, Rollback returns
\* sql.ErrTxDone, which is logged
UserDeferred ==
  LET c == us.call IN
  /\ c.pc = "deferred"
  /\ \E ok \in BOOLEAN :
       UserStep(IF c.err = Nil THEN [c EXCEPT !.pc = "done"]
                ELSE IF c.tx = "open"
                  THEN [c EXCEPT !.tx = "rolledback",
                                 !.rbErr = IF ok THEN Nil ELSE ErrEnd,
                                 !.pc = "done"]
                  ELSE [c EXCEPT !.rbErr = ErrTxDone, !.pc = "done"])
  /\ UNCHANGED userRest

\* the response has been handed to the gRPC runtime
UserReturn ==
  /\ us.call.pc = "done"
  /\ UserStep(UserCallLocals)
  /\ UNCHANGED userRest

NextUserService ==
  \/ UserCall \/ UserBeginTx \/ UserInsert \/ UserWriteMessages \/ UserSleep
  \/ UserCheckPublish \/ UserCommit \/ UserDeferred \/ UserReturn

SpecUserService == Init /\ [][NextUserService]_vars

\* ---- specification --------------------------------------------------------
Next ==
  \E p \in Procs :
    \/ CallCreateUser(p) /\ UNCHANGED aux
    \/ CallGetUser(p) /\ UNCHANGED aux
    \/ CallGetDatabaseMetrics(p) /\ UNCHANGED aux
    \/ CallGetServiceMetrics(p) /\ UNCHANGED aux
    \/ CallGetKafkaMetrics(p) /\ UNCHANGED aux
    \/ BeginTxAdmit(p) /\ UNCHANGED aux
    \/ BeginTxInc(p) /\ UNCHANGED aux
    \/ BeginTxDbBegin(p) /\ UNCHANGED aux
    \/ BeginTxUndo(p) /\ UNCHANGED aux
    \/ ReleaseTxLock(p) /\ UNCHANGED aux
    \/ ReleaseTxEnd(p) /\ UNCHANGED aux
    \/ Stmt(p) /\ UNCHANGED aux
    \/ MetricsLock(p) /\ UNCHANGED aux
    \/ TotalLoad(p) /\ UNCHANGED aux
    \/ TotalStore(p) /\ UNCHANGED aux
    \/ LatencyLoad(p) /\ UNCHANGED aux
    \/ LatencyStore(p) /\ UNCHANGED aux
    \/ FailedLoad(p) /\ UNCHANGED aux
    \/ FailedStore(p) /\ UNCHANGED aux
    \/ SuccessLoad(p) /\ UNCHANGED aux
    \/ SuccessStore(p) /\ UNCHANGED aux
    \/ MetricsUnlock(p) /\ UNCHANGED aux
    \/ DbMetricsRead1(p) /\ UNCHANGED aux
    \/ DbMetricsRead2(p) /\ UNCHANGED aux
    \/ GsmRLock(p) /\ UNCHANGED aux
    \/ GsmReadTotal(p) /\ UNCHANGED aux
    \/ GsmReadSuccessful(p) /\ UNCHANGED aux
    \/ GsmReadFailed(p) /\ UNCHANGED aux
    \/ GsmReadAverage(p) /\ UNCHANGED aux
    \/ GsmRUnlock(p) /\ UNCHANGED aux
    \/ Return(p) /\ UNCHANGED aux
    \/ Tick(p) /\ UNCHANGED aux
    \/ PollerRead1(p) /\ UNCHANGED aux
    \/ PollerRead2(p) /\ UNCHANGED aux
    \/ PollerLog(p) /\ UNCHANGED aux

Spec == Init /\ [][Next]_vars

\* ---- properties -----------------------------------------------------------
HeldCount(pl) == Cardinality({p \in Procs : loc[p].pool = pl /\ loc[p].held})

InBegin(pl) ==
  {p \in Procs : loc[p].pool = pl /\ loc[p].pc \in {"b_inc", "b_begin", "b_undo"}}

HandlersQuiet == \A h \in Handlers : loc[h].pc = "idle"

Quiescent == HandlersQuiet /\ \A q \in Pollers : loc[q].pc = "p_idle"

Finished(p) == IF p \in Handlers THEN loc[p].pc = "done" ELSE loc[p].pc = "p_idle"

\* C1: in every reachable state the active count of each pool is between 0
\* and maxConns, whatever the interleaving of BeginTx and ReleaseTx calls of
\* the handlers and the poller, failed db.Begin calls and releases with a
\* failure outcome included.
C1_ActiveWithinBounds ==
  \A pl \in Pools : 0 <= activeConns[pl] /\ activeConns[pl] <= MaxConns

\* the pool is at its maximum while one caller's db.Begin has failed and its
\* count is not yet given back, and another caller is being turned away
C1_Witness ==
  /\ activeConns["user"] = MaxConns
  /\ \E p \in Procs : loc[p].pool = "user" /\ loc[p].pc = "b_undo"
  /\ \E q \in Handlers : loc[q].err = ErrTooManyConnections

\* C2: no caller releases more sessions than it obtained, every handler
\* invocation and every poller cycle that has finished released exactly the
\* sessions it obtained, and when nothing is in flight every pool's active
\* count is 0.
C2_ReleasedExactlyOnce ==
  /\ \A p \in Procs : loc[p].nRel <= loc[p].nAcq /\ loc[p].nAcq <= 1
  /\ \A p \in Procs : loc[p].held => loc[p].nAcq = loc[p].nRel + 1
  /\ \A p \in Procs : Finished(p) => loc[p].nRel = loc[p].nAcq /\ ~loc[p].held
  /\ Quiescent => \A pl \in Pools : activeConns[pl] = 0

\* every invocation has returned, sessions were obtained and released on the
\* handler side (after a failed statement too) and by the poller
C2_Witness ==
  /\ Quiescent
  /\ calls = MaxCalls
  /\ hist.succ >= 1 /\ hist.fail >= 1
  /\ \A q \in Pollers : loc[q].nRel = 1

\* C3: a BeginTx whose admission check runs while maxConns sessions are held
\* is rejected with ErrTooManyConnections and changes neither the count nor
\* anybody's session; one that runs while fewer are held and no other BeginTx
\* is in progress is admitted, and an admitted caller whose db.Begin succeeds
\* gets its session.
C3_Exhaustion ==
  [][\A p \in Procs :
       LET pl == loc[p].pool IN
       /\ (loc[p].pc = "b_lock" /\ loc'[p].pc # "b_lock" /\ HeldCount(pl) = MaxConns)
            => /\ loc'[p].pc # "b_inc"
               /\ p \in Handlers => loc'[p].err = ErrTooManyConnections
               /\ ~loc'[p].held
               /\ activeConns' = activeConns
               /\ \A q \in Procs : loc'[q].held = loc[q].held
       /\ (loc[p].pc = "b_lock" /\ loc'[p].pc # "b_lock"
             /\ HeldCount(pl) < MaxConns /\ InBegin(pl) = {})
            => loc'[p].pc = "b_inc"
       /\ (loc[p].pc = "b_begin" /\ loc'[p].pc \notin {"b_begin", "b_undo"})
            => loc'[p].held
    ]_vars

\* maxConns sessions of the user pool are held and a handler has just been
\* turned away with ErrTooManyConnections
C3_Witness ==
  /\ HeldCount("user") = MaxConns
  /\ \E q \in Handlers : /\ loc[q].pool = "user"
                         /\ loc[q].pc = "m_lock"
                         /\ loc[q].err = ErrTooManyConnections

\* C4: when no CreateUser/GetUser invocation is in flight, the user counters
\* are exactly the numbers of invocations that returned: total = N + M,
\* successful = N, failed = M, N and M the invocations that returned success
\* resp. an error.
C4_NoLostUpdate ==
  HandlersQuiet =>
    /\ metrics["user"].totalRequests = hist.succ + hist.fail
    /\ metrics["user"].successfulRequests = hist.succ
    /\ metrics["user"].failedRequests = hist.fail

\* all the invocations of the run have returned, successes and failures
C4_Witness ==
  /\ HandlersQuiet
  /\ hist.succ + hist.fail = MaxCalls
  /\ hist.succ >= 1 /\ hist.fail >= 1

\* C5: every successful GetServiceMetrics response has
\* total_requests = successful_requests + failed_requests.
C5_ResponseConsistent ==
  \A p \in Handlers :
    (loc[p].op = "GetServiceMetrics" /\ loc[p].pc = "done" /\ loc[p].resp.terr = Nil)
      => loc[p].resp.total = loc[p].resp.succ + loc[p].resp.fail

\* a response for the user service with requests counted, returned while
\* another invocation of CreateUser/GetUser is in flight
C5_Witness ==
  \E p \in Handlers :
    /\ loc[p].op = "GetServiceMetrics" /\ loc[p].pc = "done"
    /\ loc[p].svc = "user" /\ loc[p].resp.total >= 1
    /\ \E q \in Handlers : loc[q].op \in MetricOps /\ loc[q].nAcq = 1

\* C6: a GetServiceMetrics response whose successful_requests is 0 reports an
\* average latency of 0.
C6_ZeroAverageWithoutSuccess ==
  \A p \in Handlers :
    (loc[p].op = "GetServiceMetrics" /\ loc[p].pc = "done"
       /\ loc[p].resp.terr = Nil /\ loc[p].resp.succ = 0)
      => loc[p].resp.avg = FloatZero

\* C7: an invocation of CreateUser or GetUser that has returned changed
\* totalRequests by exactly 1 and exactly one of successfulRequests and
\* failedRequests by exactly 1.
C7_ExactlyOneOutcome ==
  \A p \in Handlers :
    (loc[p].op \in MetricOps /\ loc[p].pc = "done")
      => /\ loc[p].recT = 1
         /\ loc[p].recS \in {0, 1} /\ loc[p].recF \in {0, 1}
         /\ loc[p].recS + loc[p].recF = 1

\* the three exit paths: BeginTx failed, the statement failed, success
C7_Witness ==
  /\ \E p \in Handlers : /\ loc[p].op \in MetricOps /\ loc[p].pc = "done"
                         /\ loc[p].nAcq = 0 /\ loc[p].recF = 1
  /\ \E p \in Handlers : /\ loc[p].op \in MetricOps /\ loc[p].pc = "done"
                         /\ loc[p].nAcq = 1 /\ loc[p].recS = 1

\* C8: an invocation of CreateUser or GetUser recorded as failed leaves
\* totalLatency unchanged.
C8_FailureAddsNoLatency ==
  \A p \in Handlers :
    (loc[p].op \in MetricOps /\ loc[p].pc = "done" /\ loc[p].recF = 1)
      => loc[p].lat = 0

\* C9: a session in which the handler's statement failed is ended by a
\* rollback, never by a commit.
C9_RollbackOnStatementFailure ==
  \A p \in Handlers :
    (loc[p].stmtErr # Nil /\ loc[p].txEnd # "none") => loc[p].txEnd = "rollback"

\* C10: ReleaseTx lowers the active count of its pool by exactly 1 when it
\* takes the lock, whatever its err argument, and the commit or rollback that
\* follows, succeeding or failing, leaves every count as it is.
C10_ReleaseDecrementsOnce ==
  [][\A p \in Procs :
       /\ (loc[p].pc = "r_lock" /\ loc'[p].pc = "r_io")
            => activeConns' = [activeConns EXCEPT ![loc[p].pool] = @ - 1]
       /\ (loc[p].pc = "r_io" /\ loc'[p].pc # "r_io")
            => activeConns' = activeConns
    ]_vars

\* a handler's commit has failed and been returned, and a release with a
\* failure outcome has lowered the count and is about to roll back
C10_Witness ==
  /\ \E p \in Handlers : loc[p].pc = "done" /\ loc[p].relRet = ErrEnd
  /\ \E q \in Procs : loc[q].pc = "r_io" /\ loc[q].relErr # Nil

\* the callers whose BeginTx has raised the count and who have not yet given
\* it back: db.Begin in progress or failed and not yet undone, or a session
\* held
Occupying(pl) ==
  {p \in Procs : loc[p].pool = pl
                   /\ (loc[p].held \/ loc[p].pc \in {"b_begin", "b_undo"})}

BeginFailed(p) ==
  /\ loc[p].err \in {ErrTooManyConnections, ErrBegin}
  /\ loc[p].pc \notin {"b_lock", "b_inc", "b_begin", "b_undo"}

\* C11: a caller whose BeginTx has returned an error (ErrTooManyConnections
\* or the error of db.Begin) holds no session and has left nothing in the
\* active count: the count of a pool is exactly the number of callers that
\* hold a session of it or are between the increment and the end of
\* db.Begin.
C11_FailedBeginLeavesCount ==
  /\ \A pl \in Pools : activeConns[pl] = Cardinality(Occupying(pl))
  /\ \A p \in Procs : BeginFailed(p) =>
       /\ ~loc[p].held /\ loc[p].nAcq = 0
       /\ \A pl \in Pools : p \notin Occupying(pl)

\* one handler's db.Begin has failed and its increment is undone, another
\* was rejected at the admission check
C11_Witness ==
  /\ \E p \in Handlers : loc[p].err = ErrBegin /\ BeginFailed(p)
  /\ \E q \in Handlers : loc[q].err = ErrTooManyConnections /\ BeginFailed(q)

\* C12: a CreateUser or GetUser invocation that has returned carries no
\* transport error; when its BeginTx or its statement failed, the response
\* has status "error" and the error text in its error field.
C12_NoTransportError ==
  \A p \in Handlers :
    (loc[p].op \in MetricOps /\ loc[p].pc = "done")
      => /\ loc[p].resp.terr = Nil
         /\ (loc[p].nAcq = 0 \/ loc[p].stmtErr # Nil)
              => /\ loc[p].resp.status = "error"
                 /\ loc[p].resp.error = loc[p].err
                 /\ loc[p].resp.error \in {ErrTooManyConnections, ErrBegin, ErrStmt}

\* one invocation has answered pool exhaustion, another a failed statement
C12_Witness ==
  /\ \E p \in Handlers : /\ loc[p].op \in MetricOps /\ loc[p].pc = "done"
                         /\ loc[p].resp.error = ErrTooManyConnections
  /\ \E q \in Handlers : /\ loc[q].op \in MetricOps /\ loc[q].pc = "done"
                         /\ loc[q].resp.error = ErrStmt

\* C13: a GetDatabaseMetrics call that met pool exhaustion answers with a
\* structured error and a nil transport error.
C13_ExhaustionIsNoTransportFault ==
  \A p \in Handlers :
    (loc[p].op = "GetDatabaseMetrics" /\ loc[p].pc = "done"
       /\ loc[p].err = ErrTooManyConnections)
      => loc[p].resp.terr = Nil

QueryOps == {"GetServiceMetrics", "GetDatabaseMetrics", "GetKafkaMetrics"}

\* the step is one of handler p running operation o
StepOf(p, o) == loc'[p] # loc[p] /\ loc'[p].op = o

\* C14: no step of a GetServiceMetrics call changes a counter; the call
\* returns a response for the names "user" and "order" and the
\* unknown-service error, without a response, for any other name.
C14_KnownServicesOnly ==
  [][\A p \in Handlers :
       StepOf(p, "GetServiceMetrics") =>
         /\ metrics' = metrics
         /\ loc'[p].pc = "done" =>
              IF loc'[p].svc \in {"user", "order"}
                THEN loc'[p].resp.terr = Nil /\ loc'[p].resp.status = "ok"
                ELSE loc'[p].resp.terr = ErrUnknown /\ loc'[p].resp.status = ""
    ]_vars

\* a query for "order" has been answered, one for an unknown name refused
C14_Witness ==
  /\ \E p \in Handlers : /\ loc[p].op = "GetServiceMetrics" /\ loc[p].pc = "done"
                         /\ loc[p].svc = "order" /\ loc[p].resp.status = "ok"
  /\ \E q \in Handlers : /\ loc[q].op = "GetServiceMetrics" /\ loc[q].pc = "done"
                         /\ loc[q].svc = "other" /\ loc[q].resp.terr = ErrUnknown

\* C15: no step of a GetDatabaseMetrics call for a name other than "user"
\* and "order" changes a pool's active count or takes a pool's mutex; the
\* call obtains no session and returns the unknown-service error.
C15_UnknownResourceTakesNoSession ==
  [][\A p \in Handlers :
       (StepOf(p, "GetDatabaseMetrics") /\ loc'[p].svc \notin {"user", "order"}) =>
         /\ activeConns' = activeConns
         /\ poolMutex' = poolMutex
         /\ loc'[p].nAcq = 0 /\ ~loc'[p].held
         /\ loc'[p].pc = "done" /\ loc'[p].resp.terr = ErrUnknown
    ]_vars

\* the call for an unknown name has returned while the user pool is in use
C15_Witness ==
  /\ \E p \in Handlers : /\ loc[p].op = "GetDatabaseMetrics" /\ loc[p].pc = "done"
                         /\ loc[p].svc = "other" /\ loc[p].resp.terr = ErrUnknown
  /\ activeConns["user"] = MaxConns

\* C16: no step of GetServiceMetrics, GetDatabaseMetrics or GetKafkaMetrics
\* changes a service counter, and a query that has returned holds no session
\* and has released what it obtained, the pools' counts being again the
\* number of callers occupying them.
C16_QueriesDoNotMutate ==
  [][\A p \in Handlers :
       (loc'[p] # loc[p] /\ loc'[p].op \in QueryOps) =>
         /\ metrics' = metrics
         /\ loc'[p].pc = "done" =>
              /\ ~loc'[p].held /\ loc'[p].nRel = loc'[p].nAcq
              /\ \A pl \in Pools :
                   /\ p \notin Occupying(pl)'
                   /\ activeConns'[pl] = Cardinality(Occupying(pl)')
    ]_vars

\* a GetDatabaseMetrics call has returned after a failed read, having
\* released its session, and a GetKafkaMetrics call has returned, after
\* requests were counted
C16_Witness ==
  /\ \E p \in Handlers : /\ loc[p].op = "GetDatabaseMetrics" /\ loc[p].pc = "done"
                         /\ loc[p].stmtErr # Nil /\ loc[p].nRel = 1
  /\ \E q \in Handlers : loc[q].op = "GetKafkaMetrics" /\ loc[q].pc = "done"
  /\ metrics["user"].totalRequests >= 1

\* C17: a CreateUser or GetUser invocation's BeginTx is rejected with
\* ErrTooManyConnections only when maxConns sessions of its pool are taken
\* by callers other than the metric queries: a GetDatabaseMetrics,
\* GetServiceMetrics or GetKafkaMetrics call uses no capacity of the pool.
C17_QueriesTakeNoCapacity ==
  [][\A p \in Handlers :
       (loc[p].op \in MetricOps /\ loc[p].pc = "b_lock"
          /\ loc'[p].err = ErrTooManyConnections)
         => Cardinality({q \in Occupying(loc[p].pool) : loc[q].op \notin QueryOps})
              >= MaxConns
    ]_vars

\* the positions at which a caller has a database operation in progress:
\* db.Begin, the handler's statement, the introspection reads of
\* GetDatabaseMetrics and of the poller, the commit or rollback
InDatabaseOp(p) ==
  loc[p].pc \in {"b_begin", "stmt", "q1", "q2", "p_q1", "p_q2", "r_io"}

\* C18: no caller holds a pool's mutex while its db.Begin, a statement, a
\* commit or a rollback is in progress.
C18_PoolMutexOnlyForCounter ==
  \A p \in Procs : InDatabaseOp(p) => \A pl \in Pools : poolMutex[pl] # p

\* C19: in CreateUser and GetUser the BeginTx, the statement and the
\* ReleaseTx with its commit or rollback all run while the handler does not
\* hold the metrics mutex.
C19_NoDatabaseOpUnderMetricsLock ==
  \A p \in Handlers :
    (loc[p].op \in MetricOps
       /\ loc[p].pc \in {"b_lock", "b_inc", "b_begin", "b_undo", "stmt",
                         "r_lock", "r_io"})
      => metricsMutex.writer # p

\* a handler has updated the counters under the lock, has unlocked, and its
\* deferred ReleaseTx is committing; another handler holds the metrics mutex
C19_Witness ==
  \E p \in Handlers :
    /\ loc[p].op \in MetricOps /\ loc[p].pc = "r_io" /\ loc[p].recS = 1
    /\ \E q \in Handlers : q # p /\ metricsMutex.writer = q

\* C20: a successful GetServiceMetrics response for the user service reports
\* counters at least as large as those written by the CreateUser and GetUser
\* invocations that had returned when the query began.
C20_QuerySeesCompletedInvocations ==
  \A p \in Handlers :
    (loc[p].op = "GetServiceMetrics" /\ loc[p].pc = "done"
       /\ loc[p].svc = "user" /\ loc[p].resp.terr = Nil)
      => /\ loc[p].resp.total >= loc[p].seen.succ + loc[p].seen.fail
         /\ loc[p].resp.succ >= loc[p].seen.succ
         /\ loc[p].resp.fail >= loc[p].seen.fail

\* a query that began after one successful and one failed invocation had
\* returned has answered
C20_Witness ==
  \E p \in Handlers :
    /\ loc[p].op = "GetServiceMetrics" /\ loc[p].pc = "done"
    /\ loc[p].svc = "user" /\ loc[p].resp.terr = Nil
    /\ loc[p].seen.succ = 1 /\ loc[p].seen.fail = 1

\* C21: no step lowers totalRequests, successfulRequests, failedRequests or
\* totalLatency of a service, and what a GetServiceMetrics call has read is
\* never more than the counter holds, so a later response for the same
\* service never shows a smaller count than an earlier one.
C21_CountersNeverDecrease ==
  [][/\ \A s \in Services : \A f \in DOMAIN Metrics :
          metrics'[s][f] >= metrics[s][f]
     /\ \A p \in Handlers :
          (loc'[p].op = "GetServiceMetrics" /\ loc'[p].svc \in Services)
            => /\ loc'[p].resp.total <= metrics'[loc'[p].svc].totalRequests
               /\ loc'[p].resp.succ <= metrics'[loc'[p].svc].successfulRequests
               /\ loc'[p].resp.fail <= metrics'[loc'[p].svc].failedRequests
    ]_vars

\* a response reported one request, and the counters have grown since
C21_Witness ==
  /\ metrics["user"].totalRequests = 2
  /\ metrics["user"].totalLatency >= 1
  /\ \E p \in Handlers : /\ loc[p].op = "GetServiceMetrics" /\ loc[p].pc = "done"
                         /\ loc[p].svc = "user" /\ loc[p].resp.total = 1

\* C23: an invocation of CreateUser or GetUser that has returned incremented
\* successfulRequests exactly when its response carries no error, and
\* incremented failedRequests, leaving successfulRequests alone, exactly
\* when its response carries an error.
C23_OutcomeMatchesResponse ==
  \A p \in Handlers :
    (loc[p].op \in MetricOps /\ loc[p].pc = "done")
      => /\ loc[p].recS = 1 <=> loc[p].resp.error = ""
         /\ (loc[p].recF = 1 /\ loc[p].recS = 0) <=> loc[p].resp.error # ""

\* a GetUser whose SELECT failed has answered with the error and counted a
\* failure, another invocation has answered without error
C23_Witness ==
  /\ \E p \in Handlers : /\ loc[p].op = "GetUser" /\ loc[p].pc = "done"
                         /\ loc[p].resp.error = ErrStmt /\ loc[p].recF = 1
  /\ \E q \in Handlers : /\ loc[q].op \in MetricOps /\ loc[q].pc = "done"
                         /\ loc[q].resp.error = "" /\ loc[q].recS = 1

\* C28: a database poller releases its session with a success outcome
\* (commit), whether its introspection reads succeeded or failed.
C28_PollerReleasesWithCommit ==
  \A q \in Pollers : loc[q].pc \in {"r_lock", "r_io"} => loc[q].relErr = Nil

\* the time slept after n failed attempts: 100 ms + 200 ms + ... + n * 100 ms
RECURSIVE BackoffTotal(_)
BackoffTotal(n) == IF n = 0 THEN 0 ELSE BackoffTotal(n - 1) + n * BackoffUnitMs

C25_ExhaustedRetriesRecordedFailed ==
  (us.call.pc = "done" /\ us.call.fails = PublishAttempts)
    => /\ us.call.resp.terr # Nil
       /\ metrics["user"].failedRequests >= 1

\* C26: every event published to the broker belongs to a row that is
\* committed, or to the call in progress whose transaction is still open:
\* no event is left for a user whose transaction was rolled back or whose
\* commit failed.
C26_PublishedImpliesCommitted ==
  \A e \in us.events :
    e \in us.rows \/ (e = us.call.id /\ us.call.tx = "open")

\* the positions of the loop of monitorDatabase
PollerPcs == {"p_idle", "b_lock", "b_inc", "b_begin", "b_undo",
              "p_q1", "p_q2", "r_lock", "r_io", "p_log"}

\* C27: a poller is always somewhere in its loop, also after a cycle in
\* which BeginTx, a read or the release failed; while it waits for a tick the
\* next cycle can start; and a step in which a cycle fails changes the log
\* and nothing of the counters, the history or the handlers.
C27_FailedCycleKeepsPoller ==
  [][\A q \in Pollers :
       /\ loc'[q].pc \in PollerPcs
       /\ loc[q].pc = "p_idle" => ENABLED Tick(q)
       /\ CycleFailed(q) =>
            /\ plog'[q].level = "error"
            /\ metrics' = metrics /\ hist' = hist /\ calls' = calls
            /\ metricsMutex' = metricsMutex
            /\ \A h \in Handlers : loc'[h] = loc[h]
    ]_vars

\* after a failed cycle the poller is in its next cycle, reading
C27_Witness ==
  \E q \in Pollers : plog[q].streak = 2 /\ loc[q].pc = "p_q2"

\* C29: the two values of a published database sample, in a poller's log
\* line or in a GetDatabaseMetrics response, were read by the same goroutine
\* in the same cycle resp. invocation.
C29_SamplesNotTorn ==
  \A p \in Procs :
    sample.out[p] # NoSample
      => /\ sample.out[p].ac = sample.out[p].size
         /\ sample.out[p].ac # NoTag
         /\ sample.out[p].ac[1] = p

\* a poller has logged its sample of the user database while a handler
\* has built its response from the order database
C29_Witness ==
  /\ \E q \in Pollers : sample.out[q] # NoSample
  /\ \E h \in Handlers : sample.out[h] # NoSample /\ loc[h].pool = "order"

Severity == [none |-> 0, info |-> 1, warn |-> 2, error |-> 3, fatal |-> 4]

\* C30: the log line of the third consecutive failed cycle of a poller has a
\* higher severity than the line of a single failed cycle.
C30_ThirdFailureElevated ==
  \A q \in Pollers :
    plog[q].streak >= 3 => Severity[plog[q].level] > Severity[FailureLevel(1)]

\* C22: a GetUser for the id of a row that a CreateUser had returned with
\* status "success" before the GetUser began, whose BeginTx succeeded and
\* whose SELECT did not fail for another reason than a missing row, answers
\* with an empty error and with that id, name and email.
C22_CreateGetRoundTrip ==
  \A h \in Handlers : \A r \in store.io[h].known :
    (/\ loc[h].op = "GetUser" /\ loc[h].pc = "done"
     /\ r.id = store.io[h].id
     /\ loc[h].nAcq = 1
     /\ loc[h].stmtErr = Nil \/ store.io[h].noRows)
      => /\ loc[h].resp.error = ""
         /\ store.io[h].found = r

\* C38: no step of a CreateUser or GetUser invocation changes a counter of
\* the order service, the order pool's active count or the order pool's
\* mutex; the order counters are zero in every reachable state, and every
\* answer of GetServiceMetrics("order") reports 0 total, 0 successful and
\* 0 failed requests.
C38_OrderUntouched ==
  [][ /\ metrics'["order"] = Metrics
      /\ \A p \in Handlers :
           /\ (loc'[p] # loc[p] /\ loc'[p].op \in MetricOps) =>
                 /\ metrics'["order"] = metrics["order"]
                 /\ activeConns'["order"] = activeConns["order"]
                 /\ poolMutex'["order"] = poolMutex["order"]
                 /\ loc'[p].pool = "user"
           /\ ( /\ loc'[p].op = "GetServiceMetrics" /\ loc'[p].svc = "order"
                /\ loc'[p].pc = "done" ) =>
                 /\ loc'[p].resp.status = "ok"
                 /\ loc'[p].resp.total = 0
                 /\ loc'[p].resp.succ = 0
                 /\ loc'[p].resp.fail = 0 ]_vars

\* the handlers have counted a success and a failure on the user service,
\* and a query for "order" is answered
C38_Witness ==
  /\ metrics["user"].successfulRequests >= 1
  /\ metrics["user"].failedRequests >= 1
  /\ \E p \in Handlers : /\ loc[p].op = "GetServiceMetrics"
                         /\ loc[p].svc = "order" /\ loc[p].pc = "done"
                         /\ loc[p].resp.status = "ok"

\* C36: a BeginTx is rejected with ErrTooManyConnections only when maxConns
\* sessions of its pool are held, begun with success and not yet released;
\* a BeginTx of another caller whose db.Begin is still in progress, or has
\* failed and is not yet undone, causes no rejection while fewer are held.
C36_RejectedOnlyWhenHeld ==
  [][\A p \in Procs :
       (loc[p].pc = "b_lock" /\ loc'[p].pc \notin {"b_lock", "b_inc"})
         => HeldCount(loc[p].pool) >= MaxConns
    ]_vars

\* C34: when a CreateUser invocation has returned status "success" (and has
\* counted a successful request) the row it inserted is committed: the
\* caller never holds a success whose commit, run at the release of the
\* session, failed.
C34_SuccessMeansCommitted ==
  \A h \in Handlers :
    ( /\ loc[h].op = "CreateUser" /\ loc[h].pc = "done"
      /\ loc[h].resp.status = "success" /\ loc[h].recS = 1 )
      => /\ store.io[h].row \in store.rows
         /\ loc[h].relRet = Nil

\* C35: the user service's CreateUser is all-or-nothing: an invocation that
\* returns an error (BeginTx, INSERT, publication after three attempts, or
\* commit failed) has committed no row, its transaction has been rolled
\* back when the INSERT or the publication failed, and one that returns an
\* id has committed the row of that id.
C35_AllOrNothing ==
  LET c == us.call IN
  c.pc = "done" =>
    /\ c.resp.terr # Nil => /\ c.id \notin us.rows
                            /\ c.tx # "committed"
    /\ c.resp.terr \in {ErrStmt, ErrPublish} => c.tx = "rolledback"
    /\ c.resp.terr = Nil => /\ c.resp.id \in us.rows
                            /\ c.tx = "committed"

\* an invocation has returned the publication error after three failed
\* attempts, rolled back, while the row of an earlier invocation is stored
C35_Witness ==
  /\ us.call.pc = "done"
  /\ us.call.resp.terr = ErrPublish
  /\ us.call.fails = PublishAttempts
  /\ us.call.tx = "rolledback"
  /\ us.call.id \notin us.rows
  /\ us.rows # {}

\* the positions at which a task waits for a pool's mutex resp. for the
\* metrics mutex
WaitsForPool(p) == loc[p].pc \in {"b_lock", "b_undo", "r_lock"}

WaitsForMetrics(p) == loc[p].pc \in {"m_lock", "g_rlock"}

HoldsPool(p) == \E pl \in Pools : poolMutex[pl] = p

HoldsMetrics(p) == metricsMutex.writer = p \/ p \in metricsMutex.readers

\* C37: the monitoring service never deadlocks: no handler, query or poller
\* holds a pool's mutex and the metrics mutex at once, none waits for a
\* mutex while it holds one, and whoever holds a mutex can take its next
\* step, which leads to the unlock, without waiting for anybody.
C37_NoDeadlock ==
  \A p \in Procs :
    /\ ~(HoldsPool(p) /\ HoldsMetrics(p))
    /\ (HoldsPool(p) \/ HoldsMetrics(p)) => ~(WaitsForPool(p) \/ WaitsForMetrics(p))
    /\ HoldsPool(p) =>
         /\ poolMutex[loc[p].pool] = p
         /\ ENABLED (BeginTxInc(p) \/ ReleaseTxEnd(p))
    /\ metricsMutex.writer = p =>
         ENABLED ( \/ TotalLoad(p) \/ TotalStore(p) \/ LatencyLoad(p)
                   \/ LatencyStore(p) \/ FailedLoad(p) \/ FailedStore(p)
                   \/ SuccessLoad(p) \/ SuccessStore(p) \/ MetricsUnlock(p) )
    /\ p \in metricsMutex.readers =>
         ENABLED ( \/ GsmReadTotal(p) \/ GsmReadSuccessful(p) \/ GsmReadFailed(p)
                   \/ GsmReadAverage(p) \/ GsmRUnlock(p) )

\* one handler waits for the metrics mutex another handler holds, while the
\* poller holds the user pool's mutex in its release
C37_Witness ==
  /\ \E p \in Handlers : /\ metricsMutex.writer = p
                         /\ \E q \in Handlers : q # p /\ loc[q].pc = "m_lock"
  /\ \E q \in Pollers : poolMutex["user"] = q /\ loc[q].pc = "r_io"

\* C31: every set of counters reportMetrics logs for a service satisfies
\* total = successful + failed, also while CreateUser and GetUser are
\* recording: the reads of the counters are consistent with each other as
\* reads under the metrics lock are.
C31_ReportedCountersConsistent ==
  \A s \in ReportedServices :
    bg.report[s].out # NoLine =>
      bg.report[s].out.total = bg.report[s].out.succ + bg.report[s].out.fail

\* C32: no step of a monitorDatabase cycle, successful or failed, and no
\* step of a monitorKafka cycle changes a counter of a service.
C32_PollersLeaveCounters ==
  [][ ( \/ \E q \in Pollers : loc'[q] # loc[q]
        \/ bg'.kafka # bg.kafka )
      => metrics' = metrics ]_vars

\* the database poller is in its third failed cycle in a row, after a read
\* that failed, and monitorKafka has logged a line
C32_Witness ==
  /\ \E q \in Pollers : /\ plog[q].streak = 3
                        /\ loc[q].stmtErr # Nil /\ loc[q].pc = "r_lock"
  /\ bg.kafka.out # NoStats
  /\ metrics = [s \in Services |-> Metrics]

\* C33: a database poller publishes a sample only at the end of a cycle in
\* which both reads succeeded and the release, a commit, returned no error;
\* the step that makes a cycle fail (BeginTx, either read, or the release)
\* publishes nothing, and no sample is out while a cycle is under way.
C33_SampleOnlyAfterCleanCycle ==
  [][\A q \in Pollers :
       /\ (sample'.out[q] # NoSample /\ sample'.out[q] # sample.out[q]) =>
            /\ loc[q].pc = "p_log"
            /\ loc[q].stmtErr = Nil
            /\ loc[q].relErr = Nil /\ loc[q].txEnd = "commit"
            /\ loc[q].relRet = Nil
            /\ ~loc[q].held /\ loc[q].nRel = 1
            /\ sample'.out[q] = [ac |-> Tag(q), size |-> Tag(q)]
            /\ plog'[q].level = "info"
       /\ CycleFailed(q) => /\ sample'.out[q] = NoSample
                            /\ plog'[q].level # "info"
       /\ loc'[q].pc # "p_idle" => sample'.out[q] = NoSample
    ]_vars

\* a sample is out after a cycle whose release committed without error
C33_Witness ==
  \E q \in Pollers :
    /\ sample.out[q] # NoSample /\ loc[q].pc = "p_idle"
    /\ loc[q].nAcq = 1 /\ loc[q].nRel = 1 /\ plog[q].level = "info"

\* the last k elements of q, by position
LastN(q, k) ==
  LET n == IF Len(q) < k THEN Len(q) ELSE k IN
  [i \in 1..n |-> q[Len(q) - n + i]]

DashboardSeries == {"userService", "database", "kafka"}

\* C39: each series of the dashboard (user service, database, kafka) holds
\* at most 20 entries, namely the most recent 20 of the entries that have
\* arrived for it, in arrival order; an update that lacks a section adds no
\* entry to that section's series.
C39_RollingWindow ==
  \A k \in DashboardSeries :
    /\ Len(fe.metrics[k]) <= WindowSize
    /\ fe.metrics[k] = LastN(fe.arrived[k], WindowSize)
    /\ \A i \in 1..(Len(fe.metrics[k]) - 1) :
         fe.metrics[k][i].timestamp < fe.metrics[k][i + 1].timestamp

\* more than 20 entries have arrived for the user service series, one
\* update of them lacked the kafka section
C39_Witness ==
  /\ Len(fe.arrived.userService) > WindowSize
  /\ Len(fe.metrics.userService) = WindowSize
  /\ Len(fe.arrived.kafka) < Len(fe.arrived.userService)
  /\ Len(fe.metrics.kafka) = WindowSize

\* C40: the handling of a disconnect event with the reason
\* 'io server disconnect' leaves the WebSocketService with a socket created
\* anew, which is connecting.
C40_ServerDisconnectReconnects ==
  [][ ( /\ fe.ws.conn = "connected"
        /\ fe'.ws.reason = "io server disconnect" )
      => /\ fe'.ws.socket \notin {NoSocket, fe.ws.socket}
         /\ fe'.ws.made = fe.ws.made + 1
         /\ fe'.ws.conn = "connecting" ]_vars

====
